---- MODULE Spec2Model ----
(***************************************************************************)
(* State-machine model of static/js/main.js: the resource filter, the      *)
(* borrowing-modal cost calculator and the dashboard metric animator,      *)
(* together with the JavaScript string and Number operations they use.     *)
(*                                                                         *)
(* Text is a sequence of one-character strings.  A JavaScript Number is    *)
(* NaN or a signed magnitude; a magnitude is the finite set of the binary  *)
(* positions of its 1 bits (position i weighs 2^i, negative positions are  *)
(* fraction bits), so that IEEE-754 double rounding is computed exactly.   *)
(***************************************************************************)
EXTENDS Integers, Sequences, FiniteSets

(***************************************************************************)
(* Characters and strings                                                  *)
(***************************************************************************)
Digits == <<"0", "1", "2", "3", "4", "5", "6", "7", "8", "9">>

UpperCase == <<"A", "B", "C", "D", "E", "F", "G", "H", "I", "J", "K", "L", "M",
               "N", "O", "P", "Q", "R", "S", "T", "U", "V", "W", "X", "Y", "Z">>

LowerCase == <<"a", "b", "c", "d", "e", "f", "g", "h", "i", "j", "k", "l", "m",
               "n", "o", "p", "q", "r", "s", "t", "u", "v", "w", "x", "y", "z">>

IsDigit(c) == \E i \in 1..10 : Digits[i] = c

DigitVal(c) == (CHOOSE i \in 1..10 : Digits[i] = c) - 1

\* String.prototype.toLowerCase, on the ASCII letters
LowerChar(c) ==
    IF \E i \in 1..26 : UpperCase[i] = c
    THEN LowerCase[CHOOSE i \in 1..26 : UpperCase[i] = c]
    ELSE c

ToLowerCase(s) == [i \in 1..Len(s) |-> LowerChar(s[i])]

\* s.startsWith(t, i - 1): t occurs in s at index i (1-based)
OccursAt(s, t, i) ==
    /\ i >= 1
    /\ i + Len(t) - 1 <= Len(s)
    /\ \A j \in 1..Len(t) : s[i + j - 1] = t[j]

\* String.prototype.includes
Includes(s, t) == \E i \in 1..(Len(s) + 1) : OccursAt(s, t, i)

RECURSIVE Pow(_, _)
Pow(b, n) == IF n = 0 THEN 1 ELSE b * Pow(b, n - 1)

RECURSIVE NatToStr(_)
NatToStr(n) ==
    IF n < 10 THEN <<Digits[n + 1]>>
    ELSE Append(NatToStr(n \div 10), Digits[(n % 10) + 1])

RECURSIVE StrToNat(_)
StrToNat(s) ==
    IF s = <<>> THEN 0
    ELSE 10 * StrToNat(SubSeq(s, 1, Len(s) - 1)) + DigitVal(s[Len(s)])

RECURSIVE Zeros(_)
Zeros(n) == IF n <= 0 THEN <<>> ELSE <<"0">> \o Zeros(n - 1)

\* length of the maximal run of decimal digits of s that starts at index i
RECURSIVE DigitRun(_, _)
DigitRun(s, i) ==
    IF i <= Len(s) /\ IsDigit(s[i]) THEN 1 + DigitRun(s, i + 1) ELSE 0

RECURSIVE SpaceRun(_, _)
SpaceRun(s, i) ==
    IF i <= Len(s) /\ s[i] = " " THEN 1 + SpaceRun(s, i + 1) ELSE 0

(***************************************************************************)
(* Magnitudes: exact binary arithmetic on sets of bit positions.  The      *)
(* arithmetic works on limbs of 10 bits (base 1024), so that every         *)
(* intermediate value is a small integer.                                  *)
(***************************************************************************)
\* significand width of an IEEE-754 double, the JavaScript Number type
Precision == 53

MaxOf(S) == CHOOSE x \in S : \A y \in S : y <= x

MinOf(S) == CHOOSE x \in S : \A y \in S : x <= y

Pow2 == [i \in 0..30 |-> Pow(2, i)]

NatBits(n) == {i \in 0..30 : (n \div Pow2[i]) % 2 = 1}

RECURSIVE BitsNat(_)
BitsNat(S) ==
    IF S = {} THEN 0
    ELSE LET i == MaxOf(S) IN Pow2[i] + BitsNat(S \ {i})

\* the value of limb j of S, counted from bit position lo
Limb(S, lo, j) ==
    BitsNat({i - (lo + 10 * j) : i \in {x \in S : /\ lo + 10 * j <= x
                                                  /\ x < lo + 10 * (j + 1)}})

\* index of the highest limb of S, counted from bit position lo
TopLimb(S, lo) == (MaxOf(S) - lo) \div 10

\* carry (or borrow) propagation over limb values cnt[0..n], lowest limb at
\* bit position lo; division rounds down, so a negative limb borrows
RECURSIVE Carry(_, _, _, _, _)
Carry(cnt, k, lo, c, acc) ==
    IF k \notin DOMAIN cnt /\ c = 0 THEN acc
    ELSE LET t == (IF k \in DOMAIN cnt THEN cnt[k] ELSE 0) + c
         IN  Carry(cnt, k + 1, lo, t \div 1024,
                   acc \cup {lo + 10 * k + b : b \in NatBits(t % 1024)})

AddMag(A, B) ==
    IF A = {} THEN B
    ELSE IF B = {} THEN A
    ELSE LET lo == MinOf(A \cup B)
             cnt == [k \in 0..TopLimb(A \cup B, lo) |->
                        Limb(A, lo, k) + Limb(B, lo, k)]
         IN  Carry(cnt, 0, lo, 0, {})

\* A - B, for A >= B
SubMag(A, B) ==
    IF B = {} THEN A
    ELSE LET lo == MinOf(A \cup B)
             cnt == [k \in 0..TopLimb(A \cup B, lo) |->
                        Limb(A, lo, k) - Limb(B, lo, k)]
         IN  Carry(cnt, 0, lo, 0, {})

\* sum of la[i] * lb[k - i] over the limbs i..k of la
RECURSIVE Column(_, _, _, _)
Column(la, lb, k, i) ==
    IF i > k \/ i \notin DOMAIN la THEN 0
    ELSE (IF (k - i) \in DOMAIN lb THEN la[i] * lb[k - i] ELSE 0)
         + Column(la, lb, k, i + 1)

MulMag(A, B) ==
    IF A = {} \/ B = {} THEN {}
    ELSE LET la == [i \in 0..TopLimb(A, MinOf(A)) |-> Limb(A, MinOf(A), i)]
             lb == [j \in 0..TopLimb(B, MinOf(B)) |-> Limb(B, MinOf(B), j)]
             cnt == [k \in 0..(TopLimb(A, MinOf(A)) + TopLimb(B, MinOf(B))) |->
                        Column(la, lb, k, 0)]
         IN  Carry(cnt, 0, MinOf(A) + MinOf(B), 0, {})

\* A < B
LtMag(A, B) ==
    /\ A # B
    /\ MaxOf((A \ B) \cup (B \ A)) \in B

\* round to nearest, ties to even, keeping Precision significant bits
Round53(S) ==
    IF S = {} THEN {}
    ELSE LET cut == MaxOf(S) - (Precision - 1)
             keep == {i \in S : i >= cut}
             half == (cut - 1) \in S
             sticky == \E i \in S : i < cut - 1
         IN  IF half /\ (sticky \/ cut \in S) THEN AddMag(keep, {cut}) ELSE keep

\* bits of the fraction r / d (0 <= r < d <= 10^6), ten at a time, the next ten
\* being the positions pos - 9 .. pos, until every bit down to Precision
\* positions below the leading bit is known; a nonzero remainder is recorded as
\* one more (sticky) bit below them
RECURSIVE FracBits(_, _, _, _, _)
FracBits(r, d, pos, top, acc) ==
    IF r = 0 THEN acc
    ELSE IF top # {} /\ pos < MaxOf(top) - Precision THEN acc \cup {pos}
    ELSE LET q == NatBits((r * 1024) \div d)
         IN  FracBits((r * 1024) % d, d, pos - 10,
                      IF top = {} /\ q # {} THEN {pos - 9 + MaxOf(q)} ELSE top,
                      acc \cup {pos - 9 + b : b \in q})

\* the double nearest to n / d
DecToMag(n, d) ==
    LET int == NatBits(n \div d)
    IN  Round53(FracBits(n % d, d, -1, IF int = {} THEN {} ELSE {MaxOf(int)}, int))

(***************************************************************************)
(* JavaScript Numbers                                                      *)
(***************************************************************************)
NaN == [nan |-> TRUE, neg |-> FALSE, mag |-> {}]

Num(neg, mag) == [nan |-> FALSE, neg |-> neg, mag |-> mag]

\* the value of the decimal literal with digits ds, the last fd of them after
\* the point
DecimalValue(neg, ds, fd) == Num(neg, DecToMag(StrToNat(ds), Pow(10, fd)))

\* the literal  digits [. digits]  or  . digits  that starts at index i of s:
\* <<integer digits, fraction digits, length>>, length 0 when there is none
\* (a trailing point belongs to the literal: "5." reads as 5)
DecimalLiteralAt(s, i) ==
    LET n1 == DigitRun(s, i)
        dot == i + n1 <= Len(s) /\ s[i + n1] = "."
        n2 == IF dot THEN DigitRun(s, i + n1 + 1) ELSE 0
    IN  IF n1 + n2 = 0 THEN <<0, 0, 0>>
        ELSE <<n1, n2, n1 + n2 + (IF dot THEN 1 ELSE 0)>>

SignLen(s, i) == IF i <= Len(s) /\ s[i] \in {"+", "-"} THEN 1 ELSE 0

\* parseFloat: the longest decimal-literal prefix after leading white space
\* (exponents and "Infinity" do not occur in the texts modelled)
ParseFloat(s) ==
    LET i == 1 + SpaceRun(s, 1)
        sg == SignLen(s, i)
        lit == DecimalLiteralAt(s, i + sg)
        ds == SubSeq(s, i + sg, i + sg + lit[1] - 1)
              \o SubSeq(s, i + sg + lit[1] + 1, i + sg + lit[1] + lit[2])
    IN  IF lit[3] = 0 THEN NaN
        ELSE DecimalValue(sg = 1 /\ s[i] = "-", ds, lit[2])

RECURSIVE TrimEnd(_)
TrimEnd(s) ==
    IF s # <<>> /\ s[Len(s)] = " " THEN TrimEnd(SubSeq(s, 1, Len(s) - 1)) ELSE s

\* ToNumber of a string, as the operator * applies it to this.value: the whole
\* trimmed string must be a numeric literal, and the empty string is 0
ToNumber(s) ==
    LET t == TrimEnd(SubSeq(s, 1 + SpaceRun(s, 1), Len(s)))
        sg == SignLen(t, 1)
        lit == DecimalLiteralAt(t, 1 + sg)
        ds == SubSeq(t, 1 + sg, sg + lit[1])
              \o SubSeq(t, sg + lit[1] + 2, sg + lit[1] + 1 + lit[2])
    IN  IF t = <<>> THEN Num(FALSE, {})
        ELSE IF lit[3] = 0 \/ sg + lit[3] # Len(t) THEN NaN
        ELSE DecimalValue(sg = 1 /\ t[1] = "-", ds, lit[2])

\* x * y
JsMul(x, y) ==
    IF x.nan \/ y.nan THEN NaN
    ELSE Num(x.neg # y.neg, Round53(MulMag(x.mag, y.mag)))

\* x + y
JsAdd(x, y) ==
    IF x.nan \/ y.nan THEN NaN
    ELSE IF x.neg = y.neg THEN Num(x.neg, Round53(AddMag(x.mag, y.mag)))
    ELSE IF x.mag = y.mag THEN Num(FALSE, {})
    ELSE IF LtMag(x.mag, y.mag) THEN Num(y.neg, Round53(SubMag(y.mag, x.mag)))
    ELSE Num(x.neg, Round53(SubMag(x.mag, y.mag)))

JsSub(x, y) == JsAdd(x, IF y.nan THEN NaN ELSE Num(~y.neg, y.mag))

\* x < y, for numbers
JsLess(x, y) ==
    IF x.mag = {} /\ y.mag = {} THEN FALSE
    ELSE IF x.neg # y.neg THEN x.neg /\ ~(x.mag = {} /\ y.mag = {})
    ELSE IF x.neg THEN LtMag(y.mag, x.mag)
    ELSE LtMag(x.mag, y.mag)

\* Math.max(x, y): NaN if either is NaN, and +0 is larger than -0
MathMax(x, y) ==
    IF x.nan \/ y.nan THEN NaN
    ELSE IF x.mag = {} /\ y.mag = {} THEN Num(x.neg /\ y.neg, {})
    ELSE IF JsLess(x, y) THEN y ELSE x

\* Number.prototype.toFixed(f), for |x| < 1e21: n is the integer nearest to
\* |x| * 10^f, the larger one on a tie
ToFixed(x, f) ==
    IF x.nan THEN <<"N", "a", "N">>
    ELSE LET scaled == MulMag(x.mag, NatBits(Pow(10, f)))
             n == BitsNat({i \in scaled : i >= 0})
                  + (IF -1 \in scaled THEN 1 ELSE 0)
             m == NatToStr(n)
             padded == IF Len(m) <= f THEN Zeros(f + 1 - Len(m)) \o m ELSE m
             k == Len(padded)
             sign == IF x.neg /\ x.mag # {} THEN <<"-">> ELSE <<>>
         IN  IF f = 0 THEN sign \o padded
             ELSE sign \o SubSeq(padded, 1, k - f) \o <<".">>
                       \o SubSeq(padded, k - f + 1, k)

(***************************************************************************)
(* Texts of the pages and of the user's input                              *)
(***************************************************************************)
CostPrefix ==
    <<"C", "o", "s", "t", ":", " ">>

CostSuffix ==
    <<" ", "c", "r", "e", "d", "i", "t", "s", "/", "h", "o", "u", "r">>

TotalPrefix ==
    <<"T", "o", "t", "a", "l", " ", "c", "o", "s", "t", ":", " ">>

TotalSuffix ==
    <<" ", "c", "r", "e", "d", "i", "t", "s">>

TitleGpuNode ==
    <<"G", "P", "U", " ", "N", "o", "d", "e">>

TitleGpuBox ==
    <<"g", "p", "u", "-", "b", "o", "x">>

TitleDisk ==
    <<"D", "i", "s", "k", " ", "A", "r", "r", "a", "y">>

Titles == {TitleGpuNode, TitleGpuBox, TitleDisk}

\* what the user may type into the search field
SearchTexts == {<<>>, <<"G", "P", "U">>, <<"o", "d">>, <<"z", "z">>}

\* the options of the category selector
FilterTypes == {"", "compute", "storage"}

\* the keys of the keyup events
Keys == {"Enter", "a"}

\* what the user may type into an hours field
HoursValues ==
    {<<>>, <<"2">>, <<"3">>, <<"1", ".", "5">>, <<"0", ".", "5">>,
     <<"a", "b", "c">>}

RateSentence(rate) == CostPrefix \o rate \o CostSuffix

\* rates, in credits per hour
Rates ==
    {<<"2", ".", "5">>, <<"4">>, <<"0", ".", "3", "5">>,
     <<"0", ".", "1", "2", "5">>, <<"1", ".", "0", "0", "5">>,
     <<"1", "2", ".", "9", "9">>}

\* rate sentences of the form the script expects, one with text around it
GoodAlerts ==
    {RateSentence(rate) : rate \in Rates \ {<<"1", "2", ".", "9", "9">>}}
    \cup
    {<<"H", "o", "u", "r", "l", "y", " ">>
         \o RateSentence(<<"1", "2", ".", "9", "9">>) \o <<" ", "(", "1", "h", ")">>}

\* .alert-info texts without a rate the pattern accepts
BadAlerts ==
    {CostPrefix \o <<"f", "r", "e", "e">>,
     RateSentence(<<"2", ".">>),
     RateSentence(<<".", "5">>)}

AlertTexts == GoodAlerts \cup BadAlerts

\* initial texts of .resource-metric elements
MetricInitTexts == {<<"3">>, <<"1", ".", "5", "%">>, <<"N", "/", "A">>}

(***************************************************************************)
(* filterResources (lines 9-28)                                            *)
(***************************************************************************)
\* fault variant of MatchesSearch: the card title is not lower-cased
MatchesSearchCaseSensitive(card, searchValue) ==
    Includes(card.title, ToLowerCase(searchValue))

\* line 18, with lines 10 and 14: cardTitle.includes(searchTerm), both
\* lower-cased
TitleIncludes(title, searchValue) ==
    Includes(ToLowerCase(title), ToLowerCase(searchValue))

\* TitleIncludes over the titles and search texts of the model, computed once
TitleTable == [t \in Titles, q \in SearchTexts |-> TitleIncludes(t, q)]

MatchesSearch(card, searchValue) ==
    IF card.title \in Titles /\ searchValue \in SearchTexts
    THEN TitleTable[card.title, searchValue]
    ELSE TitleIncludes(card.title, searchValue)

\* line 19; card.dataset.type is undefined without a data-type attribute
MatchesType(card, filterType) ==
    filterType = "" \/ (card.hasType /\ card.type = filterType)

\* fault variant of CardDisplay: a matching card that is shown is toggled off
CardDisplayToggled(card, shown, searchValue, filterType) ==
    IF /\ Includes(ToLowerCase(card.title), ToLowerCase(searchValue))
       /\ (filterType = "" \/ (card.hasType /\ card.type = filterType))
       /\ shown # "block"
    THEN "block" ELSE "none"

\* lines 22-26; shown is the card's display before, which the code does not
\* read
CardDisplay(card, shown, searchValue, filterType) ==
    IF MatchesSearch(card, searchValue) /\ MatchesType(card, filterType)
    THEN "block" ELSE "none"

\* index of the first card without a .card-title child, where line 14 reads
\* textContent of null; Len + 1 when every card has one
FirstUntitled(cards) ==
    IF \E i \in 1..Len(cards) : ~cards[i].hasTitle
    THEN MinOf({i \in 1..Len(cards) : ~cards[i].hasTitle})
    ELSE Len(cards) + 1

\* filterResources on page pg with the given field values and card displays:
\* the displays it leaves, and whether it threw a TypeError.  Lines 10 and 11
\* read .value of null when the search field or the selector is absent; the
\* forEach of line 13 stops at the first card without a title.
FilterResources(pg, searchValue, filterType, shown) ==
    IF ~pg.searchInput \/ ~pg.typeFilter
    THEN [display |-> shown, threw |-> TRUE]
    ELSE [display |->
              [i \in 1..Len(pg.cards) |->
                  IF i < FirstUntitled(pg.cards)
                  THEN CardDisplay(pg.cards[i], shown[i], searchValue, filterType)
                  ELSE shown[i]],
          threw |-> FirstUntitled(pg.cards) <= Len(pg.cards)]

(***************************************************************************)
(* The hours input listener (lines 51-65)                                  *)
(***************************************************************************)
\* length of the match of  (\d+(?:\.\d+)?) credits\/hour  at index j of s,
\* counting the group only; 0 when there is none.  \d+ is greedy and what
\* follows a digit run is no digit, so backtracking finds nothing else.
GroupLen(s, j) ==
    LET n1 == DigitRun(s, j)
        n2 == IF j + n1 <= Len(s) /\ s[j + n1] = "."
              THEN DigitRun(s, j + n1 + 1) ELSE 0
    IN  IF n1 = 0 THEN 0
        ELSE IF n2 > 0 /\ OccursAt(s, CostSuffix, j + n1 + 1 + n2) THEN n1 + 1 + n2
        ELSE IF OccursAt(s, CostSuffix, j + n1) THEN n1
        ELSE 0

\* textContent.match(/Cost: (\d+(?:\.\d+)?) credits\/hour/): the leftmost
\* match; found = FALSE stands for null
RateMatch(s) ==
    LET hits == {i \in 1..Len(s) : /\ OccursAt(s, CostPrefix, i)
                                   /\ GroupLen(s, i + Len(CostPrefix)) > 0}
    IN  IF hits = {} THEN [found |-> FALSE, group |-> <<>>]
        ELSE LET j == MinOf(hits) + Len(CostPrefix)
             IN  [found |-> TRUE, group |-> SubSeq(s, j, j + GroupLen(s, j) - 1)]

\* fault variant of CreditRate: parseInt, which stops at the decimal point
CreditRateAsInteger(group) == ParseFloat(SubSeq(group, 1, DigitRun(group, 1)))

\* line 57: parseFloat of the captured group
CreditRate(group) == ParseFloat(group)

\* lines 58 and 63: the text written for this.value = value and the captured
\* rate
TotalCostText(value, group) ==
    TotalPrefix \o ToFixed(JsMul(ToNumber(value), CreditRate(group)), 2)
                \o TotalSuffix

\* fault variant of CostOutcome: a null match is read as NaN and written
CostOutcomeWithoutThrow(value, alert) ==
    [threw |-> FALSE,
     text |-> IF RateMatch(alert).found
              THEN TotalPrefix
                       \o ToFixed(JsMul(ToNumber(value),
                                        ParseFloat(RateMatch(alert).group)), 2)
                       \o TotalSuffix
              ELSE TotalPrefix \o ToFixed(NaN, 2) \o TotalSuffix]

\* lines 57-63 for a modal whose .alert-info reads alert: [1] of a null match
\* throws before anything is written
CostOutcome(value, alert) ==
    LET m == RateMatch(alert)
    IN  IF m.found THEN [threw |-> FALSE, text |-> TotalCostText(value, m.group)]
        ELSE [threw |-> TRUE, text |-> <<>>]

\* CostOutcome over the values and sentences of the model, computed once
CostTable == [v \in HoursValues, a \in AlertTexts |-> CostOutcome(v, a)]

CostLookup(value, alert) ==
    IF value \in HoursValues /\ alert \in AlertTexts
    THEN CostTable[value, alert] ELSE CostOutcome(value, alert)

\* fault variant of CostTarget: document.querySelector, the first
\* .calculated-cost of the document
CostTargetFirstInDocument(pg, i) == 1

\* the modal whose .calculated-cost line 61 finds: the one enclosing the input
CostTarget(pg, i) == pg.inputs[i]

\* the listener of lines 51-65 for input i of page pg with this.value = value:
\* the .calculated-cost texts it leaves, and whether it threw
HoursInputHandler(pg, i, value, cost) ==
    LET k == pg.inputs[i]
    IN  IF k = 0 THEN [cost |-> cost, threw |-> FALSE]
        ELSE IF ~pg.modals[k].hasAlert THEN [cost |-> cost, threw |-> TRUE]
        ELSE LET out == CostLookup(value, pg.modals[k].alert)
                 t == CostTarget(pg, i)
             IN  IF out.threw THEN [cost |-> cost, threw |-> TRUE]
                 ELSE IF ~pg.modals[t].hasCost THEN [cost |-> cost, threw |-> FALSE]
                 ELSE [cost |-> [cost EXCEPT ![t] = out.text], threw |-> FALSE]

(***************************************************************************)
(* updateResourceMetrics (lines 70-88) and the two timers                  *)
(***************************************************************************)
\* setInterval period of line 93, in milliseconds
IntervalPeriod == 10000

\* fault variant of TimeoutDelay: a delay longer than the period
TimeoutDelayPastPeriod == IntervalPeriod + 5000

\* setTimeout delay of line 86, in milliseconds
TimeoutDelay == 1000

\* largest metric value the model lets a tick produce
MaxMetric == 5

\* results of Math.random(), in [0, 1): 0, 1/4, 1/2 and 63/64
RandomValues ==
    {Num(FALSE, {}), Num(FALSE, {-2}), Num(FALSE, {-1}),
     Num(FALSE, {-6, -5, -4, -3, -2, -1})}

\* line 76: (Math.random() - 0.5) * 10
Fluctuation(random) ==
    JsMul(JsSub(random, Num(FALSE, {-1})), Num(FALSE, NatBits(10)))

\* fault variant of ClampAtZero: no clamp
ClampNothing(value) == value

\* Math.max(0, value) of line 77
ClampAtZero(value) == MathMax(Num(FALSE, {}), value)

\* lines 75-77: the text written over a metric that reads text
NewMetricText(text, random) ==
    ToFixed(ClampAtZero(JsAdd(ParseFloat(text), Fluctuation(random))), 1)

\* the value a text reads as exceeds MaxMetric
TooLarge(text) ==
    LET v == ParseFloat(text)
    IN  ~v.nan /\ JsLess(Num(FALSE, NatBits(MaxMetric)), v)

RECURSIVE TenthsTexts(_)
TenthsTexts(n) ==
    IF n < 0 THEN {}
    ELSE {NatToStr(n \div 10) \o <<".">> \o NatToStr(n % 10)} \cup TenthsTexts(n - 1)

\* the metric texts within the bound
MetricTexts == MetricInitTexts \cup {<<"N", "a", "N">>} \cup TenthsTexts(10 * MaxMetric)

MetricOutcome(text, random) ==
    [text |-> NewMetricText(text, random),
     large |-> TooLarge(NewMetricText(text, random))]

\* MetricOutcome over the texts and random values of the model, computed once
MetricTable == [t \in MetricTexts, r \in RandomValues |-> MetricOutcome(t, r)]

MetricLookup(text, random) ==
    IF text \in MetricTexts /\ random \in RandomValues
    THEN MetricTable[text, random] ELSE MetricOutcome(text, random)

(***************************************************************************)
(* Pages: the elements the script finds at DOMContentLoaded                *)
(***************************************************************************)
Card(title, type) == [hasTitle |-> TRUE, title |-> title, hasType |-> TRUE, type |-> type]

\* a .resource-card without a .card-title child
UntitledCard(type) == [hasTitle |-> FALSE, title |-> <<>>, hasType |-> TRUE, type |-> type]

\* a .resource-card without a data-type attribute
UntypedCard(title) == [hasTitle |-> TRUE, title |-> title, hasType |-> FALSE, type |-> ""]

\* a .modal with an .alert-info block and a .calculated-cost target
Modal(alert) == [hasAlert |-> TRUE, alert |-> alert, hasCost |-> TRUE]

ModalWithoutAlert == [hasAlert |-> FALSE, alert |-> <<>>, hasCost |-> TRUE]

ModalWithoutCost(alert) == [hasAlert |-> TRUE, alert |-> alert, hasCost |-> FALSE]

\* inputs[i] is the index of the modal that encloses hours input i, 0 for none
Page(searchInput, searchButton, typeFilter, cards, inputs, modals, metrics) ==
    [searchInput |-> searchInput, searchButton |-> searchButton,
     typeFilter |-> typeFilter, cards |-> cards, inputs |-> inputs,
     modals |-> modals, metrics |-> metrics]

AllCards ==
    <<Card(TitleGpuNode, "compute"), Card(TitleGpuBox, "compute"),
      Card(TitleDisk, "storage"), UntypedCard(TitleGpuNode)>>

\* the resource list: search form and cards
CatalogPages ==
    {Page(TRUE, TRUE, TRUE, AllCards, <<>>, <<>>, <<>>)}

\* resource lists lacking an element the script looks up
BrokenCatalogPages ==
    {Page(FALSE, TRUE, TRUE, SubSeq(AllCards, 1, 2), <<>>, <<>>, <<>>),
     Page(TRUE, TRUE, FALSE, SubSeq(AllCards, 1, 2), <<>>, <<>>, <<>>),
     Page(TRUE, FALSE, TRUE, SubSeq(AllCards, 1, 2), <<>>, <<>>, <<>>),
     Page(TRUE, TRUE, TRUE,
          <<AllCards[1], UntitledCard("compute"), AllCards[2]>>, <<>>, <<>>, <<>>)}

\* borrowing modals: two hours inputs in two modals and one outside any modal
BorrowPages ==
    {Page(FALSE, FALSE, FALSE, <<>>, <<1, 2, 0>>,
          <<Modal(a), Modal(RateSentence(<<"4">>))>>, <<>>) : a \in AlertTexts}
    \cup
    {Page(FALSE, FALSE, FALSE, <<>>, <<1, 2>>,
          <<ModalWithoutAlert, Modal(RateSentence(<<"4">>))>>, <<>>),
     Page(FALSE, FALSE, FALSE, <<>>, <<1, 2>>,
          <<ModalWithoutCost(RateSentence(<<"4">>)),
            Modal(RateSentence(<<"2", ".", "5">>))>>, <<>>)}

\* the dashboard: metrics only
DashboardPages ==
    {Page(FALSE, FALSE, FALSE, <<>>, <<>>, <<>>, <<t1, t2>>) :
        t1 \in {<<"3">>}, t2 \in MetricInitTexts}

\* a page with none of the elements
EmptyPages == {Page(FALSE, FALSE, FALSE, <<>>, <<>>, <<>>, <<>>)}

\* a page with all three components
FullPages ==
    {Page(TRUE, TRUE, TRUE, <<AllCards[1], AllCards[3]>>, <<1>>,
          <<Modal(alert)>>, <<<<"N", "/", "A">>>>) :
        alert \in {RateSentence(<<"2", ".", "5">>),
                   CostPrefix \o <<"f", "r", "e", "e">>}}

Pages ==
    CatalogPages \cup BrokenCatalogPages \cup BorrowPages \cup DashboardPages
        \cup EmptyPages \cup FullPages

(***************************************************************************)
(* State                                                                   *)
(***************************************************************************)
VARIABLES
    page,         \* the elements found at load; the script creates and removes none
    searchValue,  \* searchInput.value
    filterValue,  \* typeFilter.value
    display,      \* display[i]: style.display of resourceCards[i]
    hoursValue,   \* hoursValue[i]: value of hoursInputs[i]
    costText,     \* costText[k]: textContent of the .calculated-cost of modal k
    metricText,   \* metricText[m]: textContent of .resource-metric element m
    updated,      \* updated[m]: element m has the class 'updated'
    timers,       \* pending timers, each with the milliseconds left until it is due
    threw         \* the listener or callback that ran last threw an error

vars ==
    <<page, searchValue, filterValue, display, hoursValue, costText, metricText,
      updated, timers, threw>>

IntervalTimer(rem) == [kind |-> "interval", el |-> 0, rem |-> rem]

Timeout(m, rem) == [kind |-> "timeout", el |-> m, rem |-> rem]

\* DOMContentLoaded (lines 1-94): the listeners are registered, and line 91
\* starts the interval timer only if a .resource-metric element exists
Init ==
    /\ page \in Pages
    /\ searchValue = <<>>
    /\ filterValue = ""
    /\ display = [i \in 1..Len(page.cards) |-> ""]
    /\ hoursValue = [i \in 1..Len(page.inputs) |-> <<>>]
    /\ costText = [k \in 1..Len(page.modals) |-> <<>>]
    /\ metricText = page.metrics
    /\ updated = [m \in 1..Len(page.metrics) |-> FALSE]
    /\ timers = IF Len(page.metrics) > 0 THEN {IntervalTimer(IntervalPeriod)} ELSE {}
    /\ threw = FALSE

\* a listener runs filterResources
RunFilter ==
    LET out == FilterResources(page, searchValue', filterValue', display)
    IN  /\ display' = out.display
        /\ threw' = out.threw

\* click on the search button (line 32, registered if the button exists)
ClickSearch ==
    /\ page.searchButton
    /\ UNCHANGED <<searchValue, filterValue>>
    /\ RunFilter
    /\ UNCHANGED <<page, hoursValue, costText, metricText, updated, timers>>

\* fault variant of KeyRunsFilter: the key is not tested
KeyAlwaysRunsFilter(key) == TRUE

\* line 37: the keyup listener runs filterResources for this key
KeyRunsFilter(key) == key = "Enter"

\* keyup in the search field (lines 36-40, registered if the field exists)
KeyupSearch(key) ==
    /\ page.searchInput
    /\ UNCHANGED <<searchValue, filterValue>>
    /\ IF KeyRunsFilter(key)
       THEN RunFilter
       ELSE /\ threw' = FALSE
            /\ UNCHANGED display
    /\ UNCHANGED <<page, hoursValue, costText, metricText, updated, timers>>

\* the user edits the search text; the script listens to no event of it
EditSearch(text) ==
    /\ page.searchInput
    /\ searchValue' = text
    /\ UNCHANGED <<page, filterValue, display, hoursValue, costText, metricText,
                   updated, timers, threw>>

\* the user selects a category: change on the selector (line 44, registered
\* if the selector exists)
ChangeType(type) ==
    /\ page.typeFilter
    /\ filterValue' = type
    /\ UNCHANGED searchValue
    /\ RunFilter
    /\ UNCHANGED <<page, hoursValue, costText, metricText, updated, timers>>

\* the user types value into hours input i: its input listener (lines 51-65)
HoursInput(i, value) ==
    /\ i \in 1..Len(page.inputs)
    /\ hoursValue' = [hoursValue EXCEPT ![i] = value]
    /\ LET out == HoursInputHandler(page, i, value, costText)
       IN  /\ costText' = out.cost
           /\ threw' = out.threw
    /\ UNCHANGED <<page, searchValue, filterValue, display, metricText, updated,
                   timers>>

\* lines 75-80 for every .resource-metric element, random[m] being the result
\* of Math.random() for element m
UpdateResourceMetrics(texts, random) ==
    [m \in 1..Len(texts) |-> MetricLookup(texts[m], random[m]).text]

\* the interval timer is due: updateResourceMetrics (lines 70-88), and the
\* timer is due again a period later
Tick(random) ==
    /\ IntervalTimer(0) \in timers
    /\ \A m \in 1..Len(metricText) : ~MetricLookup(metricText[m], random[m]).large
    /\ metricText' = UpdateResourceMetrics(metricText, random)
    /\ updated' = [m \in 1..Len(metricText) |-> TRUE]
    /\ timers' = (timers \ {IntervalTimer(0)})
                    \cup {IntervalTimer(IntervalPeriod)}
                    \cup {Timeout(m, TimeoutDelay) : m \in 1..Len(metricText)}
    /\ threw' = FALSE
    /\ UNCHANGED <<page, searchValue, filterValue, display, hoursValue, costText>>

\* a one-shot timer of line 84 is due: line 85
TimeoutFires(m) ==
    /\ Timeout(m, 0) \in timers
    /\ updated' = [updated EXCEPT ![m] = FALSE]
    /\ timers' = timers \ {Timeout(m, 0)}
    /\ threw' = FALSE
    /\ UNCHANGED <<page, searchValue, filterValue, display, hoursValue, costText,
                   metricText>>

\* time passes until the next timer is due; a due timer fires before more
\* time passes
Advance ==
    /\ timers # {}
    /\ \A t \in timers : t.rem > 0
    /\ LET d == MinOf({t.rem : t \in timers})
       IN  timers' = {[t EXCEPT !.rem = t.rem - d] : t \in timers}
    /\ UNCHANGED <<page, searchValue, filterValue, display, hoursValue, costText,
                   metricText, updated, threw>>

Randoms == [1..Len(metricText) -> RandomValues]

Next ==
    \/ ClickSearch
    \/ \E key \in Keys : KeyupSearch(key)
    \/ \E text \in SearchTexts : EditSearch(text)
    \/ \E type \in FilterTypes : ChangeType(type)
    \/ \E i \in 1..Len(page.inputs), value \in HoursValues : HoursInput(i, value)
    \/ \E random \in Randoms : Tick(random)
    \/ \E m \in 1..Len(metricText) : TimeoutFires(m)
    \/ Advance

Spec == Init /\ [][Next]_vars

\* timers that are due fire, and time passes
FairSpec ==
    /\ Spec
    /\ WF_vars(Advance)
    /\ WF_vars(\E random \in Randoms : Tick(random))
    /\ WF_vars(\E m \in 1..Len(metricText) : TimeoutFires(m))

(***************************************************************************)
(* Properties.  Exact values are computed here in integer arithmetic on    *)
(* the decimal digits, independently of the Number operations above.       *)
(***************************************************************************)
Abs(x) == IF x < 0 THEN -x ELSE x

\* s is an optional sign and a decimal with exactly f fraction digits
IsFixed(s, f) ==
    LET body == IF s # <<>> /\ s[1] = "-" THEN Tail(s) ELSE s
        n == Len(body)
    IN  /\ n >= f + 2
        /\ body[n - f] = "."
        /\ \A i \in 1..n : i # n - f => IsDigit(body[i])

\* the unsigned fixed-point text s with f fraction digits, as a count of units
\* of 10^-f
FixedUnits(s, f) ==
    StrToNat(SubSeq(s, 1, Len(s) - f - 1) \o SubSeq(s, Len(s) - f + 1, Len(s)))

\* text is "Total cost: " body " credits"
HasCostFrame(text) ==
    /\ Len(text) >= Len(TotalPrefix) + Len(TotalSuffix)
    /\ OccursAt(text, TotalPrefix, 1)
    /\ OccursAt(text, TotalSuffix, Len(text) - Len(TotalSuffix) + 1)

CostBody(text) == SubSeq(text, Len(TotalPrefix) + 1, Len(text) - Len(TotalSuffix))

\* the decimal literal that text starts with: its digits as a natural number,
\* the number of fraction digits, and its length
ExactDecimal(text) ==
    LET lit == DecimalLiteralAt(text, 1)
    IN  [num |-> StrToNat(SubSeq(text, 1, lit[1])
                          \o SubSeq(text, lit[1] + 2, lit[1] + 1 + lit[2])),
         frac |-> lit[2], len |-> lit[3]]

IsPlainDecimal(text) == text # <<>> /\ ExactDecimal(text).len = Len(text)

NumericHours == {v \in HoursValues : IsPlainDecimal(v)}

\* the rate a well-formed .alert-info text states
RateOf(alert) == CHOOSE rate \in Rates : Includes(alert, RateSentence(rate))

\* text is "Total cost: T credits", T with exactly two fraction digits and a
\* hundredth nearest to the exact product hours * rate
IsRoundedProduct(text, hours, rate) ==
    LET h == ExactDecimal(hours)
        r == ExactDecimal(rate)
        scale == Pow(10, h.frac + r.frac)
    IN  /\ HasCostFrame(text)
        /\ IsFixed(CostBody(text), 2)
        /\ CostBody(text)[1] # "-"
        /\ 2 * Abs(FixedUnits(CostBody(text), 2) * scale - 100 * h.num * r.num)
               <= scale

CostTextOf(total) == TotalPrefix \o total \o TotalSuffix

\* the title contains the search text, letter case aside
TitleContains(title, q) ==
    \E k \in 0..(Len(title) - Len(q)) :
        \A j \in 1..Len(q) : LowerChar(title[k + j]) = LowerChar(q[j])

ShouldShow(card, q, f) ==
    /\ TitleContains(card.title, q)
    /\ (f = "" \/ (card.hasType /\ card.type = f))

\* a step of one of the three filter triggers
FilterRan ==
    \/ ClickSearch
    \/ KeyupSearch("Enter")
    \/ \E type \in FilterTypes : ChangeType(type)

TickFired == \E random \in Randoms : Tick(random)

TimeoutFired == \E m \in 1..Len(metricText) : TimeoutFires(m)

InputFired == \E i \in 1..Len(page.inputs), v \in HoursValues : HoursInput(i, v)

\* the modal that encloses hours input i has an .alert-info text from alerts
InputInModal(i, alerts) ==
    /\ page.inputs[i] # 0
    /\ page.modals[page.inputs[i]].hasAlert
    /\ page.modals[page.inputs[i]].alert \in alerts

(* C1: after filterResources has run with search text Q and category F, a  *)
(* card is shown (display 'block') if and only if its lower-cased title    *)
(* contains lower-cased Q and F is empty or equals its data-type, and is   *)
(* hidden (display 'none') otherwise; with no match every card is hidden.  *)
C1_FilterShowsExactlyMatches ==
    [][(FilterRan /\ ~threw') =>
          \A i \in 1..Len(page.cards) :
              display'[i] =
                  IF ShouldShow(page.cards[i], searchValue', filterValue')
                  THEN "block" ELSE "none"]_vars

C1_Witness ==
    /\ page \in CatalogPages
    /\ searchValue = <<"G", "P", "U">>
    /\ filterValue = "compute"
    /\ display = <<"block", "block", "none", "none">>
    /\ ~threw

(* C2: firing any wired event never raises an error, whichever of the      *)
(* looked-up elements are absent.                                          *)
C2_NoListenerThrows == ~threw

(* C3: an input event on an hours field in a modal with a well-formed rate *)
(* sentence and a .calculated-cost element writes 'Total cost: T credits', *)
(* T being hours * rate rounded to two fraction digits: 3 * 2.5 gives      *)
(* 7.50 and 2 * 4 gives 8.00.                                              *)
C3_TotalCostIsRoundedProduct ==
    [][\A i \in 1..Len(page.inputs), v \in NumericHours :
          (/\ HoursInput(i, v)
           /\ InputInModal(i, GoodAlerts)
           /\ page.modals[page.inputs[i]].hasCost) =>
              LET rate == RateOf(page.modals[page.inputs[i]].alert)
                  text == costText'[page.inputs[i]]
              IN  /\ ~threw'
                  /\ IsRoundedProduct(text, v, rate)
                  /\ (v = <<"3">> /\ rate = <<"2", ".", "5">>)
                         => text = CostTextOf(<<"7", ".", "5", "0">>)
                  /\ (v = <<"2">> /\ rate = <<"4">>)
                         => text = CostTextOf(<<"8", ".", "0", "0">>)]_vars

C3_Witness ==
    /\ Len(page.modals) = 2
    /\ page.modals[1].alert = RateSentence(<<"2", ".", "5">>)
    /\ hoursValue[1] = <<"3">>
    /\ costText[1] = CostTextOf(<<"7", ".", "5", "0">>)

(* C4: when the rate text does not match the pattern, the hours input      *)
(* listener throws before it writes anything: cost texts, card displays    *)
(* and metrics are unchanged; the events that follow are handled as ever.  *)
C4_BadRateThrowsBeforeAnyWrite ==
    [][/\ \A i \in 1..Len(page.inputs), v \in HoursValues :
              (HoursInput(i, v) /\ InputInModal(i, BadAlerts)) =>
                  /\ threw'
                  /\ UNCHANGED <<costText, display, metricText, updated, timers>>
       /\ \A i \in 1..Len(page.inputs) :
              (/\ threw
               /\ HoursInput(i, <<"2">>)
               /\ InputInModal(i, {RateSentence(<<"4">>)})) =>
                  /\ ~threw'
                  /\ costText'[page.inputs[i]] = CostTextOf(<<"8", ".", "0", "0">>)
       /\ (threw /\ FilterRan /\ ~threw') =>
              \A i \in 1..Len(page.cards) :
                  display'[i] =
                      IF ShouldShow(page.cards[i], searchValue', filterValue')
                      THEN "block" ELSE "none"
       /\ (threw /\ TickFired) =>
              \A m \in 1..Len(metricText) : updated'[m]]_vars

C4_Witness ==
    /\ Len(page.modals) = 2
    /\ page.modals[1].hasAlert
    /\ page.modals[1].alert \in BadAlerts
    /\ hoursValue[1] # <<>>
    /\ costText[1] = <<>>
    /\ costText[2] = CostTextOf(<<"8", ".", "0", "0">>)
    /\ ~threw

\* Math.random() result random as a count of 64ths
SixtyFourths(random) == BitsNat({b + 6 : b \in random.mag})

\* text, one fraction digit, is a tenth nearest to max(0, old + (r - 0.5) * 10)
\* where old is the decimal that oldText starts with and r = random
IsClampedSum(text, oldText, random) ==
    LET old == ExactDecimal(oldText)
        scale == Pow(10, old.frac)
        sum == 640 * old.num + (100 * SixtyFourths(random) - 3200) * scale
        clamped == IF sum < 0 THEN 0 ELSE sum
    IN  /\ IsFixed(text, 1)
        /\ text[1] # "-"
        /\ Abs(64 * scale * FixedUnits(text, 1) - clamped) <= 32 * scale

ZeroText == <<"0", ".", "0">>

(* C5: a metric tick replaces the text of every metric that reads as a     *)
(* number old by max(0, old + delta), delta = (random - 0.5) * 10, with    *)
(* one fraction digit; 0.0 with a negative delta stays 0.0, and no metric  *)
(* that started non-negative is ever displayed below 0.                    *)
C5_TickClampsAtZero ==
    /\ [][\A random \in Randoms :
             Tick(random) =>
                 \A m \in 1..Len(metricText) :
                     ExactDecimal(metricText[m]).len > 0 =>
                         /\ IsClampedSum(metricText'[m], metricText[m], random[m])
                         /\ (/\ ExactDecimal(metricText[m]).num = 0
                             /\ SixtyFourths(random[m]) < 32)
                                => metricText'[m] = ZeroText]_vars
    /\ [](\A m \in 1..Len(metricText) :
             metricText[m] = <<>> \/ metricText[m][1] # "-")

C5_Witness ==
    \E m \in 1..Len(metricText) :
        /\ page.metrics[m] = <<"3">>
        /\ metricText[m] = ZeroText
        /\ updated[m]

(* C6: every text the script writes is a valid decimal: a cost text is     *)
(* 'Total cost: ' digits '.' two digits ' credits' and a metric text is    *)
(* digits '.' one digit, also when the hours field holds a non-numeric     *)
(* value or the metric text cannot be read as a number.                    *)
C6_WrittenTextsAreDecimals ==
    /\ \A k \in 1..Len(costText) :
           costText[k] # <<>> =>
               HasCostFrame(costText[k]) /\ IsFixed(CostBody(costText[k]), 2)
    /\ \A m \in 1..Len(metricText) :
           metricText[m] # page.metrics[m] => IsFixed(metricText[m], 1)

Intervals == {t \in timers : t.kind = "interval"}

Timeouts == {t \in timers : t.kind = "timeout"}

MetricIds == UNION {1..Len(pg.metrics) : pg \in Pages}

Highlighted(m) == m \in 1..Len(updated) /\ updated[m]

TimersConsistent ==
    /\ Len(page.metrics) = 0 => timers = {}
    /\ Len(page.metrics) > 0 => Cardinality(Intervals) = 1
    /\ \A m \in 1..Len(updated) : updated[m] <=> \E t \in Timeouts : t.el = m
    /\ \A t1, t2 \in Timeouts : t1.el = t2.el => t1 = t2
    /\ \A t \in Timeouts, iv \in Intervals : t.rem < iv.rem
    /\ IntervalTimer(0) \in timers => \A m \in 1..Len(updated) : ~updated[m]

(* C8: the interval timer is started only if a metric element exists; a    *)
(* tick highlights every metric and schedules the removal; the highlight   *)
(* of a tick is removed before the next tick, so no one-shot timer is left *)
(* pending when the interval timer is due.                                 *)
C8_HighlightRemovedBeforeNextTick ==
    /\ []TimersConsistent
    /\ [][TickFired =>
             \A m \in 1..Len(metricText) :
                 updated'[m] /\ Timeout(m, TimeoutDelay) \in timers']_vars
    /\ \A m \in MetricIds : Highlighted(m) ~> ~Highlighted(m)

C8_Witness ==
    /\ Len(metricText) = 2
    /\ updated[1] /\ updated[2]
    /\ Timeout(1, TimeoutDelay) \in timers
    /\ Timeout(2, TimeoutDelay) \in timers
    /\ IntervalTimer(IntervalPeriod) \in timers

(* C7: running filterResources again with the same search text and         *)
(* category leaves every card's display as the first run left it,          *)
(* whatever the displays were before the first run.                        *)
C7_FilterIsIdempotent ==
    [][FilterRan =>
          LET again == FilterResources(page, searchValue', filterValue', display')
          IN  again.display = display' /\ again.threw = threw']_vars

C7_Witness ==
    /\ page \in CatalogPages
    /\ searchValue = <<"z", "z">>
    /\ filterValue = ""
    /\ display = <<"block", "block", "block", "block">>

(* C9: card displays change only in a step of the search button click, the *)
(* Enter keyup in the search field or the category change; editing the     *)
(* search text, other keys, hours input events and timer steps leave them  *)
(* as they are.                                                            *)
C9_OnlyTriggersChangeDisplay ==
    [][/\ ((\E key \in Keys \ {"Enter"} : KeyupSearch(key))
              \/ (\E text \in SearchTexts : EditSearch(text))
              \/ InputFired \/ TickFired \/ TimeoutFired \/ Advance)
           => display' = display
       /\ display' # display => FilterRan]_vars

C9_Witness ==
    /\ page \in FullPages
    /\ searchValue = <<"z", "z">>
    /\ display[1] = "block"
    /\ costText[1] # <<>>
    /\ updated[1]

(* C10: the three behaviours are independent: a filter step changes only   *)
(* card displays, an hours input event changes only the cost text of the   *)
(* modal that encloses the field, a tick changes only metric texts and     *)
(* highlights, the removal of a highlight only that highlight.             *)
C10_BehavioursAreIndependent ==
    [][/\ FilterRan =>
              UNCHANGED <<page, hoursValue, costText, metricText, updated, timers>>
       /\ \A i \in 1..Len(page.inputs), v \in HoursValues :
              HoursInput(i, v) =>
                  /\ UNCHANGED <<page, searchValue, filterValue, display,
                                 metricText, updated, timers>>
                  /\ \A k \in 1..Len(costText) :
                         k # page.inputs[i] => costText'[k] = costText[k]
                  /\ \A j \in 1..Len(hoursValue) :
                         j # i => hoursValue'[j] = hoursValue[j]
       /\ TickFired =>
              UNCHANGED <<page, searchValue, filterValue, display, hoursValue,
                          costText>>
       /\ \A m \in 1..Len(metricText) :
              TimeoutFires(m) =>
                  /\ UNCHANGED <<page, searchValue, filterValue, display,
                                 hoursValue, costText, metricText>>
                  /\ \A n \in 1..Len(updated) :
                         n # m => updated'[n] = updated[n]]_vars

C10_Witness ==
    /\ Len(page.modals) = 2
    /\ Len(page.inputs) = 3
    /\ page.modals[1].alert = RateSentence(<<"0", ".", "3", "5">>)
    /\ costText[1] = CostTextOf(<<"0", ".", "7", "0">>)
    /\ costText[2] = CostTextOf(<<"1", "2", ".", "0", "0">>)
    /\ hoursValue[3] # <<>>

====
